---- MODULE Spec2Model ----
\* Log-based chat ranking (bot/plugins/chatrank.py): line classifiers, the
\* per-file counter with its memo, the aggregator, tie-aware ranking, the daily
\* series and its least-squares fit.
EXTENDS Integers, Sequences, FiniteSets, TLC

VARIABLES today, logs, cache, poisoned, logStart, last, hist, events,
          arg, out

vars == <<today, logs, cache, poisoned, logStart, last, hist, events,
          arg, out>>

\* ------------------------------------------------------------------ bounds
MaxEvents == 3
IOEvents == 2
PlotEvents == 4
MaxLen == 2
MaxCount == 2
MaxPts == 3
MaxX == 2

\* n of !top10chat and of !top5bonkers / !top5bonked
Top10 == 10
Top5 == 5

\* ------------------------------------------------------------ characters
\* A line is a sequence of characters; "NL" stands for the newline that ends
\* every line read from a file.
WordChars == {"A", "B", "a", "b", "h", "i", "j", "k", "n", "o", "s", "t", "_"}

Lower(c) == IF c = "A" THEN "a" ELSE IF c = "B" THEN "b" ELSE c

LowerStr(s) == [i \in 1..Len(s) |-> Lower(s[i])]

\* smallest index >= i whose character is in stop, Len(s)+1 when there is none
RECURSIVE Find(_, _, _)
Find(s, i, stop) ==
    IF i > Len(s) THEN Len(s) + 1
    ELSE IF s[i] \in stop THEN i
    ELSE Find(s, i + 1, stop)

\* smallest index >= i whose character is NOT in keep
RECURSIVE Span(_, _, _)
Span(s, i, keep) ==
    IF i > Len(s) THEN Len(s) + 1
    ELSE IF s[i] \notin keep THEN i
    ELSE Span(s, i + 1, keep)

\* s has the literal lit at index i
HasAt(s, i, lit) ==
    /\ i + Len(lit) - 1 <= Len(s)
    /\ \A j \in 1..Len(lit) : s[i + j - 1] = lit[j]

NoMatch == [matched |-> FALSE, chat_user |-> <<>>, action_user |-> <<>>]

\* ^\[[^]]+\][^<*]* : the index of the first '<' or '*' after the timestamp,
\* 0 when the prefix does not match or no such character follows
Prefix(s) ==
    IF Len(s) = 0 \/ s[1] # "[" THEN 0
    ELSE LET j == Find(s, 2, {"]"})
         IN IF j > Len(s) \/ j < 3 THEN 0
            ELSE LET k == Find(s, j + 1, {"<", "*"})
                 IN IF k > Len(s) THEN 0 ELSE k

\* <(?P<chat_user>[^>]+)> at index k: the index of the closing '>', 0 if none
Angle(s, k) ==
    IF k = 0 \/ s[k] # "<" THEN 0
    ELSE LET e == Find(s, k + 1, {">"})
         IN IF e > Len(s) \/ e < k + 2 THEN 0 ELSE e

\* CHAT_LOG_RE.match(line)
MatchChat(s) ==
    LET k == Prefix(s)
        e == Angle(s, k)
    IN IF k = 0 THEN NoMatch
       ELSE IF e # 0
       THEN [matched |-> TRUE, chat_user |-> SubSeq(s, k + 1, e - 1),
             action_user |-> <<>>]
       ELSE IF HasAt(s, k, <<"*", " ">>)
       THEN LET f == Find(s, k + 2, {" "})
            IN IF f < k + 3 THEN NoMatch
               ELSE [matched |-> TRUE, chat_user |-> <<>>,
                     action_user |-> SubSeq(s, k + 2, f - 1)]
       ELSE NoMatch

\* BONKER_RE.match(line)
MatchBonker(s) ==
    LET k == Prefix(s)
        e == Angle(s, k)
    IN IF e = 0 THEN NoMatch
       ELSE IF /\ HasAt(s, e + 1, <<" ", "!", "b", "o", "n", "k">>)
               /\ (e + 7 > Len(s) \/ s[e + 7] \notin WordChars)
       THEN [matched |-> TRUE, chat_user |-> SubSeq(s, k + 1, e - 1),
             action_user |-> <<>>]
       ELSE NoMatch

\* BONKED_RE.match(line)
MatchBonked(s) ==
    LET k == Prefix(s)
        e == Angle(s, k)
    IN IF e = 0 THEN NoMatch
       ELSE IF HasAt(s, e + 1, <<" ", "!", "b", "o", "n", "k", " ">>)
       THEN LET w == IF HasAt(s, e + 8, <<"@">>) THEN e + 9 ELSE e + 8
                f == Span(s, w, WordChars)
            IN IF f = w THEN NoMatch
               ELSE [matched |-> TRUE, chat_user |-> SubSeq(s, w, f - 1),
                     action_user |-> <<>>]
       ELSE NoMatch

Regs == {"CHAT_LOG_RE", "BONKER_RE", "BONKED_RE"}

Match(reg, s) ==
    IF reg = "CHAT_LOG_RE" THEN MatchChat(s)
    ELSE IF reg = "BONKER_RE" THEN MatchBonker(s)
    ELSE MatchBonked(s)

\* ------------------------------------------------------------- log lines
LChat    == <<"[", "t", "]", " ", "<", "A", ">", " ", "h", "i", "NL">>
LBonk    == <<"[", "t", "]", " ", "<", "A", ">", " ", "!", "b", "o", "n", "k",
              " ", "@", "B", "NL">>
LAction  == <<"[", "t", "]", " ", "*", " ", "b", " ", "h", "i", "NL">>
LJoin    == <<"[", "t", "]", " ", "j", "o", "i", "n", "NL">>
LBonkB   == <<"[", "t", "]", " ", "<", "B", ">", " ", "!", "b", "o", "n", "k",
              " ", "A", "NL">>
LBonks   == <<"[", "t", "]", " ", "<", "b", ">", " ", "!", "b", "o", "n", "k",
              "s", "NL">>
LBare    == <<"[", "t", "]", " ", "<", "a", ">", " ", "!", "b", "o", "n", "k",
              "NL">>
LEmpty   == <<"[", "t", "]", " ", "<", ">", " ", "h", "i", "NL">>

Pool == <<LBonk, LAction, LJoin, LChat, LBonkB, LBonks, LBare, LEmpty>>

\* ---------------------------------------------------------------- Counter
\* A Counter is a dict: a sequence of <<key, count>> pairs in insertion order.
Keys(c) == {c[i][1] : i \in 1..Len(c)}

Get(c, u) ==
    IF u \in Keys(c) THEN c[CHOOSE i \in 1..Len(c) : c[i][1] = u][2] ELSE 0

Inc(c, u, n) ==
    IF u \in Keys(c)
    THEN [i \in 1..Len(c) |-> IF c[i][1] = u THEN <<u, c[i][2] + n>> ELSE c[i]]
    ELSE Append(c, <<u, n>>)

\* Counter.update(other)
RECURSIVE Update(_, _)
Update(total, other) ==
    IF other = <<>> THEN total
    ELSE Update(Inc(total, other[1][1], other[1][2]), Tail(other))

\* ------------------------------------------------------------ FileCounter
\* reg.match(line) for every line of the pool
MatchTable == [reg \in Regs |-> [i \in 1..Len(Pool) |-> Match(reg, Pool[i])]]

\* the loop body with the assertion on a non-matching line made for every matcher
CountLineAssertAll(acc, reg, i) ==
    LET m == MatchTable[reg][i]
        user == IF m.chat_user # <<>> THEN m.chat_user ELSE m.action_user
    IN IF ~m.matched \/ user = <<>>
       THEN [status |-> "AssertionError", counts |-> <<>>]
       ELSE [status |-> "ok", counts |-> Inc(acc.counts, LowerStr(user), 1)]

\* the body of "for line in f" for one line (an index of Pool);
\* acc = [status, counts]
CountLine(acc, reg, i) ==
    LET m == MatchTable[reg][i]
        user == IF m.chat_user # <<>> THEN m.chat_user ELSE m.action_user
    IN IF ~m.matched
       THEN IF reg = "CHAT_LOG_RE"
            THEN [status |-> "AssertionError", counts |-> <<>>]
            ELSE acc
       ELSE IF user = <<>>
       THEN [status |-> "AssertionError", counts |-> <<>>]
       ELSE [status |-> "ok", counts |-> Inc(acc.counts, LowerStr(user), 1)]

RECURSIVE CountLines(_, _, _)
CountLines(acc, reg, content) ==
    IF content = <<>> \/ acc.status # "ok" THEN acc
    ELSE CountLines(CountLine(acc, reg, Head(content)), reg, Tail(content))

\* _counts_per_file.__wrapped__ on an opened file
CountsPerFile(content, reg) ==
    CountLines([status |-> "ok", counts |-> <<>>], reg, content)

\* ------------------------------------------------------------- RankEngine
Min(a, b) == IF a < b THEN a ELSE b

FirstMax(c) ==
    CHOOSE i \in 1..Len(c) :
        \A j \in 1..Len(c) :
            /\ c[j][2] <= c[i][2]
            /\ (c[j][2] = c[i][2] => i <= j)

Remove(c, i) == SubSeq(c, 1, i - 1) \o SubSeq(c, i + 1, Len(c))

\* Counter.most_common(): descending count, stable on insertion order
RECURSIVE MostCommon(_)
MostCommon(c) ==
    IF c = <<>> THEN <<>>
    ELSE <<c[FirstMax(c)]>> \o MostCommon(Remove(c, FirstMax(c)))

\* Counter.most_common(n): heapq.nlargest(n, ...) = sorted(...)[:n]
MostCommonN(c, n) == SubSeq(MostCommon(c), 1, Min(n, Len(c)))

\* itertools.groupby(counts, key=count): runs of consecutive equal counts
RECURSIVE GroupBy(_)
GroupBy(counts) ==
    IF counts = <<>> THEN <<>>
    ELSE LET k == counts[1][2]
             e == CHOOSE i \in 1..Len(counts) :
                      /\ \A j \in 1..i : counts[j][2] = k
                      /\ (i < Len(counts) => counts[i + 1][2] # k)
         IN <<[count |-> k, users |-> SubSeq(counts, 1, e)]>>
            \o GroupBy(SubSeq(counts, e + 1, Len(counts)))

\* ranks that skip after a tie (1, 1, 3): the rank is the position of the
\* group's first entry
TiedRankGaps(counts) ==
    LET g == GroupBy(counts)
        before(i) == Cardinality({j \in 1..Len(counts) : counts[j][2] > g[i].count})
    IN [i \in 1..Len(g) |-> [rank |-> before(i) + 1, count |-> g[i].count,
                             users |-> g[i].users]]

\* enumerate(grouped, start=1)
TiedRank(counts) ==
    LET g == GroupBy(counts)
    IN [i \in 1..Len(g) |-> [rank |-> i, count |-> g[i].count, users |-> g[i].users]]

\* the rank taken from the user's position in the sorted list, not from the group
UserRankByPosition(total, username) ==
    LET target == LowerStr(username)
        sorted == MostCommon(total)
        found == {i \in 1..Len(sorted) : sorted[i][1] = target}
    IN IF found = {} THEN <<>>
       ELSE LET i == CHOOSE i \in found : TRUE
            IN <<i, sorted[i][2]>>

\* the ranking loop of _user_rank_by_line_type on the aggregated total:
\* <<rank, count>>, or <<>> for None
UserRank(total, username) ==
    LET target == LowerStr(username)
        groups == TiedRank(MostCommon(total))
        found == {i \in 1..Len(groups) :
                     \E j \in 1..Len(groups[i].users) : groups[i].users[j][1] = target}
    IN IF found = {} THEN <<>>
       ELSE LET i == CHOOSE i \in found : \A k \in found : i <= k
            IN <<groups[i].rank, groups[i].count>>

\* grouping before truncating: the first n groups, each whole
TopNGroupFirst(total, n) ==
    LET all == TiedRank(MostCommon(total))
        groups == SubSeq(all, 1, Min(n, Len(all)))
    IN [i \in 1..Len(groups) |->
           [rank |-> groups[i].rank,
            usernames |-> [j \in 1..Len(groups[i].users) |-> groups[i].users[j][1]],
            count |-> groups[i].count]]

\* the loop of _top_n_rank_by_line_type on the aggregated total; the string
\* f'{rank}. {usernames} ({count})' is kept as its three parts
TopN(total, n) ==
    LET groups == TiedRank(MostCommonN(total, n))
    IN [i \in 1..Len(groups) |->
           [rank |-> groups[i].rank,
            usernames |-> [j \in 1..Len(groups[i].users) |-> groups[i].users[j][1]],
            count |-> groups[i].count]]

\* ------------------------------------------------------------ TrendEngine
RECURSIVE Sum(_)
Sum(s) == IF s = <<>> THEN 0 ELSE Head(s) + Sum(Tail(s))

Prod(x, y) == [i \in 1..Min(Len(x), Len(y)) |-> x[i] * y[i]]

\* lin_regr: slope a and intercept b as exact fractions <<numerator, denominator>>
LinRegr(x, y) ==
    LET sum_x == Sum(x)
        sum_xx == Sum(Prod(x, x))
        sum_y == Sum(y)
        sum_xy == Sum(Prod(x, y))
        bnum == sum_y * sum_xx - sum_x * sum_xy
        bden == Len(x) * sum_xx - sum_x * sum_x
    IN IF bden = 0 \/ sum_xx = 0
       THEN [status |-> "ZeroDivisionError", a |-> <<0, 1>>, b |-> <<0, 1>>]
       ELSE [status |-> "ok",
             a |-> <<sum_xy * bden - bnum * sum_x, bden * sum_xx>>,
             b |-> <<bnum, bden>>]

\* ------------------------------------------------- memo and Aggregator
\* os.listdir('logs'): one file <day>.log per key of logs
ListDir == DOMAIN logs

\* every order os.listdir may return the files in
Orders(S) ==
    {o \in [1..Cardinality(S) -> S] : \A i, j \in 1..Cardinality(S) : o[i] = o[j] => i = j}

\* sorted(os.listdir('logs')): ISO dates sort chronologically
RECURSIVE Sorted(_)
Sorted(S) ==
    IF S = {} THEN <<>>
    ELSE LET m == CHOOSE d \in S : \A e \in S : d <= e
         IN <<m>> \o Sorted(S \ {m})

\* the files a query may find it cannot open: none; none or any one of them
Readable == {{}}
Unreadable == {{}} \cup {{d} : d \in ListDir}

\* the state a query threads through its per-file calls; bad = the files
\* whose open() fails during this query
Acc0(bad) ==
    [status |-> "ok", total |-> <<>>, cache |-> cache, poisoned |-> poisoned,
     bad |-> bad, contrib |-> <<>>, hits |-> {}, writes |-> {}, failed |-> 0,
     counts |-> <<>>, x |-> <<>>, y |-> <<>>]

\* a file that cannot be opened read as an empty file
ReadFileAsEmpty(acc, d, reg) ==
    IF d \in acc.bad THEN [status |-> "ok", counts |-> <<>>]
    ELSE CountsPerFile(logs[d], reg)

\* open(filename) and the counting loop: OSError when the file cannot be opened
ReadFile(acc, d, reg) ==
    IF d \in acc.bad THEN [status |-> "OSError", counts |-> <<>>]
    ELSE CountsPerFile(logs[d], reg)

\* a memo that recomputes and overwrites on every call
CachedCallRecompute(acc, d, reg) ==
    LET r == CountsPerFile(logs[d], reg)
    IN IF d \in acc.bad
       THEN [acc EXCEPT !.status = "OSError", !.failed = d, !.counts = <<>>]
       ELSE IF r.status # "ok"
       THEN [acc EXCEPT !.status = r.status, !.failed = d, !.counts = <<>>]
       ELSE [acc EXCEPT !.counts = r.counts,
                        !.cache = (<<d, reg>> :> r.counts) @@ acc.cache,
                        !.writes = acc.writes \cup {<<d, reg>>}]

\* _counts_per_file(full_filename, reg) through functools.lru_cache: a hit
\* returns the stored mapping, a miss computes and stores it, an exception
\* stores nothing
CachedCall(acc, d, reg) ==
    IF <<d, reg>> \in DOMAIN acc.cache
    THEN [acc EXCEPT !.counts = acc.cache[<<d, reg>>],
                     !.hits = acc.hits \cup {<<d, reg>>}]
    ELSE LET r == ReadFile(acc, d, reg)
         IN IF r.status # "ok"
            THEN [acc EXCEPT !.status = r.status, !.failed = d, !.counts = <<>>]
            ELSE [acc EXCEPT !.counts = r.counts,
                             !.cache = (<<d, reg>> :> r.counts) @@ acc.cache,
                             !.poisoned = acc.poisoned
                                 \cup (IF d = today THEN {<<d, reg>>} ELSE {}),
                             !.writes = acc.writes \cup {<<d, reg>>}]

\* _counts_per_file.__wrapped__(full_filename, reg): no memo involved
WrappedCall(acc, d, reg) ==
    LET r == ReadFile(acc, d, reg)
    IN IF r.status # "ok"
       THEN [acc EXCEPT !.status = r.status, !.failed = d, !.counts = <<>>]
       ELSE [acc EXCEPT !.counts = r.counts]

\* total.update(counts) after a per-file call
Fold(c, d) ==
    IF c.status # "ok" THEN c
    ELSE [c EXCEPT !.total = Update(c.total, c.counts),
                   !.contrib = (d :> c.counts) @@ c.contrib]

\* the loop body with today's file going through the memo like the others
FileStepAlwaysCached(acc, d, reg) ==
    Fold(CachedCall(acc, d, reg), d)

\* the loop body with today's file re-read but its counts stored in the memo
FileStepOverwrite(acc, d, reg) ==
    LET c == WrappedCall(acc, d, reg)
    IN Fold(IF d # today THEN CachedCall(acc, d, reg)
            ELSE IF c.status # "ok" THEN c
            ELSE [c EXCEPT !.cache = (<<d, reg>> :> c.counts) @@ c.cache,
                           !.poisoned = c.poisoned \cup {<<d, reg>>},
                           !.writes = c.writes \cup {<<d, reg>>}], d)

\* the body of the loop of _chat_rank_counts for one file
FileStep(acc, d, reg) ==
    Fold(IF d # today THEN CachedCall(acc, d, reg) ELSE WrappedCall(acc, d, reg), d)

\* _chat_rank_counts(reg) with os.listdir returning the files in this order
RECURSIVE ChatRankCounts(_, _, _)
ChatRankCounts(acc, order, reg) ==
    IF order = <<>> \/ acc.status # "ok" THEN acc
    ELSE ChatRankCounts(FileStep(acc, Head(order), reg), Tail(order), reg)

\* _log_start_date() through lru_cache(maxsize=1); 0 = not computed yet
LogStartDate ==
    IF logStart # 0 THEN logStart
    ELSE CHOOSE d \in ListDir : \A e \in ListDir : d <= e

\* the series step without the test "x or counts[user]"
PlotStepNoSkip(acc, d, user) ==
    IF d = today THEN acc
    ELSE LET Point(c) ==
                 IF c.status # "ok" THEN c
                 ELSE [c EXCEPT !.x = Append(c.x, d - LogStartDate),
                                !.y = Append(c.y, Get(c.counts, user)),
                                !.contrib = (d :> c.counts) @@ c.contrib]
         IN Point(CachedCall(acc, d, "CHAT_LOG_RE"))

\* the body of the loop of cmd_chatplot for one file
PlotStep(acc, d, user) ==
    IF d = today THEN acc
    ELSE LET Point(c) ==
                 IF c.status # "ok" THEN c
                 ELSE IF c.x # <<>> \/ Get(c.counts, user) # 0
                 THEN [c EXCEPT !.x = Append(c.x, d - LogStartDate),
                                !.y = Append(c.y, Get(c.counts, user)),
                                !.contrib = (d :> c.counts) @@ c.contrib]
                 ELSE [c EXCEPT !.contrib = (d :> c.counts) @@ c.contrib]
         IN Point(CachedCall(acc, d, "CHAT_LOG_RE"))

RECURSIVE PlotLoop(_, _, _)
PlotLoop(acc, order, user) ==
    IF order = <<>> \/ acc.status # "ok" THEN acc
    ELSE PlotLoop(PlotStep(acc, Head(order), user), Tail(order), user)

\* ---------------------------------------------------------------- state
NoFit == [status |-> "none", a |-> <<0, 1>>, b |-> <<0, 1>>]

\* the external change since the last query: none, one append to today's
\* file, or anything else
NoHist == [n |-> 0, line |-> 0]

NoLast ==
    [kind |-> "none", reg |-> "CHAT_LOG_RE", user |-> <<>>, n |-> 0, today |-> 0,
     status |-> "none", total |-> <<>>, rank |-> <<>>, top |-> <<>>,
     contrib |-> <<>>, hits |-> {}, writes |-> {}, failed |-> 0, bad |-> {},
     after |-> NoHist, prevReg |-> "CHAT_LOG_RE", prevTotal |-> <<>>,
     x |-> <<>>, y |-> <<>>, fit |-> NoFit]

\* what a query leaves behind: its outcome, the per-file calls it made, the
\* external change it came after and, after a single append, the matcher and
\* totals of the query before it
Outcome(kind, reg, user, n, acc, status) ==
    [NoLast EXCEPT !.kind = kind, !.reg = reg, !.user = user, !.n = n,
                   !.today = today, !.status = status,
                   !.contrib = acc.contrib, !.hits = acc.hits,
                   !.writes = acc.writes, !.failed = acc.failed,
                   !.bad = acc.bad, !.after = hist,
                   !.prevReg = IF hist.n = 1 THEN last.reg ELSE "CHAT_LOG_RE",
                   !.prevTotal = IF hist.n = 1 THEN last.total ELSE <<>>]

AfterAppend(l) ==
    IF hist.n = 0 /\ last.status = "ok" /\ last.kind \in {"rank", "top"}
    THEN [n |-> 1, line |-> l]
    ELSE [n |-> 2, line |-> 0]

Other == [n |-> 2, line |-> 0]

\* the last outcome is remembered while the logs are as the query saw them,
\* and across one append to today's file
Kept(h) == IF h.n = 1 THEN last ELSE NoLast

\* the lines the logger writes: a !bonk and a join notice; a !bonk and an action
SysLines == {1, 3}
PlotLines == {1, 2}

Names == {<<"A">>}

NoArg == [content |-> <<>>, reg |-> "CHAT_LOG_RE", total |-> <<>>, x |-> <<>>, y |-> <<>>]

NoOut ==
    [count |-> [status |-> "none", counts |-> <<>>],
     rankDone |-> FALSE, user |-> <<>>, rank |-> <<>>,
     topDone |-> FALSE, n |-> 0, top |-> <<>>,
     fit |-> NoFit]

Init ==
    /\ today = 1
    /\ logs = <<>>
    /\ cache = <<>>
    /\ poisoned = {}
    /\ logStart = 0
    /\ last = NoLast
    /\ hist = NoHist
    /\ events = 0
    /\ arg = NoArg
    /\ out = NoOut

\* ------------------------------------------------ the world outside
\* the logger appends a line to today's file, creating it if needed
AppendToday(l, max) ==
    /\ events < max
    /\ logs' = (today :> (IF today \in ListDir THEN Append(logs[today], l) ELSE <<l>>)) @@ logs
    /\ hist' = AfterAppend(l)
    /\ last' = Kept(AfterAppend(l))
    /\ events' = events + 1
    /\ UNCHANGED <<today, cache, poisoned, logStart, arg, out>>

\* somebody edits a past file
MutatePast(d, l, max) ==
    /\ events < max
    /\ d \in ListDir
    /\ d < today
    /\ logs' = [logs EXCEPT ![d] = Append(logs[d], l)]
    /\ hist' = Other
    /\ last' = NoLast
    /\ events' = events + 1
    /\ UNCHANGED <<today, cache, poisoned, logStart, arg, out>>

\* midnight
NextDay(max) ==
    /\ events < max
    /\ today' = today + 1
    /\ hist' = Other
    /\ last' = NoLast
    /\ events' = events + 1
    /\ UNCHANGED <<logs, cache, poisoned, logStart, arg, out>>

\* ------------------------------------------------------------- commands
\* !chatrank, !bonkrank, !bonkedrank: _user_rank_by_line_type(user, reg) and
\* the reply; only !chatrank's reply calls _log_start_date()
CmdUserRank(user, reg, bads) ==
    \E order \in Orders(ListDir), bad \in bads :
        LET Reply(acc, rank) ==
                /\ cache' = acc.cache
                /\ poisoned' = acc.poisoned
                /\ last' = IF acc.status = "ok"
                           THEN [Outcome("rank", reg, user, 0, acc, acc.status)
                                     EXCEPT !.total = acc.total, !.rank = rank]
                           ELSE Outcome("rank", reg, user, 0, acc, acc.status)
                /\ logStart' = IF reg = "CHAT_LOG_RE" /\ rank # <<>> THEN LogStartDate
                               ELSE logStart
                /\ hist' = NoHist
                /\ UNCHANGED <<today, logs, events, arg, out>>
            Ranked(acc) ==
                Reply(acc, IF acc.status = "ok" THEN UserRank(acc.total, user) ELSE <<>>)
        IN Ranked(ChatRankCounts(Acc0(bad), order, reg))

\* !top10chat, !top5bonkers, !top5bonked: _top_n_rank_by_line_type(reg, n) and
\* the reply; !top10chat's reply calls _log_start_date(), whose min() raises
\* ValueError on an empty directory
CmdTopN(reg, bads) ==
    \E order \in Orders(ListDir), bad \in bads :
        LET n == IF reg = "CHAT_LOG_RE" THEN Top10 ELSE Top5
            Reply(acc, status) ==
                /\ cache' = acc.cache
                /\ poisoned' = acc.poisoned
                /\ last' = IF acc.status = "ok"
                           THEN [Outcome("top", reg, <<>>, n, acc, status)
                                     EXCEPT !.total = acc.total,
                                            !.top = TopN(acc.total, n)]
                           ELSE Outcome("top", reg, <<>>, n, acc, status)
                /\ logStart' = IF status = "ok" /\ reg = "CHAT_LOG_RE" THEN LogStartDate
                               ELSE logStart
                /\ hist' = NoHist
                /\ UNCHANGED <<today, logs, events, arg, out>>
            Replied(acc) ==
                Reply(acc, IF acc.status = "ok" /\ reg = "CHAT_LOG_RE" /\ ListDir = {}
                           THEN "ValueError" ELSE acc.status)
        IN Replied(ChatRankCounts(Acc0(bad), order, reg))

\* !chatplot: the daily series of one user and its trend line; "need2" is the
\* reply 'need at least 2 days of data'
CmdChatPlot(user, bads) ==
    IF ListDir = {}
    THEN /\ last' = Outcome("plot", "CHAT_LOG_RE", LowerStr(user), 0, Acc0({}), "ValueError")
         /\ hist' = NoHist
         /\ UNCHANGED <<today, logs, cache, poisoned, logStart, events, arg, out>>
    ELSE \E bad \in bads :
         LET Status(acc, fit) ==
                 IF acc.status # "ok" THEN acc.status
                 ELSE IF Len(acc.x) < 2 THEN "need2"
                 ELSE fit.status
             Reply(acc, fit) ==
                 /\ cache' = acc.cache
                 /\ poisoned' = acc.poisoned
                 /\ logStart' = LogStartDate
                 /\ last' = IF acc.status = "ok"
                            THEN [Outcome("plot", "CHAT_LOG_RE", LowerStr(user), 0,
                                          acc, Status(acc, fit))
                                      EXCEPT !.x = acc.x, !.y = acc.y, !.fit = fit]
                            ELSE Outcome("plot", "CHAT_LOG_RE", LowerStr(user), 0,
                                         acc, Status(acc, fit))
                 /\ hist' = NoHist
                 /\ UNCHANGED <<today, logs, events, arg, out>>
             Fitted(acc) ==
                 Reply(acc, IF acc.status = "ok" /\ Len(acc.x) >= 2
                            THEN LinRegr(acc.x, acc.y) ELSE NoFit)
         IN Fitted(PlotLoop(Acc0(bad), Sorted(ListDir), LowerStr(user)))

\* every command, every file readable
Next ==
    \/ \E l \in SysLines : AppendToday(l, MaxEvents)
    \/ \E d \in ListDir, l \in SysLines : MutatePast(d, l, MaxEvents)
    \/ NextDay(MaxEvents)
    \/ \E u \in Names, reg \in Regs : CmdUserRank(u, reg, Readable)
    \/ \E reg \in Regs : CmdTopN(reg, Readable)
    \/ \E u \in Names : CmdChatPlot(u, Readable)

Spec == Init /\ [][Next]_vars

\* every command, with files that may fail to open
IONext ==
    \/ \E l \in SysLines : AppendToday(l, IOEvents)
    \/ NextDay(IOEvents)
    \/ \E u \in Names, reg \in Regs : CmdUserRank(u, reg, Unreadable)
    \/ \E reg \in Regs : CmdTopN(reg, Unreadable)
    \/ \E u \in Names : CmdChatPlot(u, Unreadable)

SpecIO == Init /\ [][IONext]_vars

\* the chat-message commands alone, over a longer run of days
PlotNext ==
    \/ \E l \in PlotLines : AppendToday(l, PlotEvents)
    \/ NextDay(PlotEvents)
    \/ \E u \in Names : CmdUserRank(u, "CHAT_LOG_RE", Readable)
    \/ \E u \in Names : CmdChatPlot(u, Unreadable)

SpecPlot == Init /\ [][PlotNext]_vars

\* ------------------------------------------------ the functions alone
Idle ==
    /\ today = 1
    /\ logs = <<>>
    /\ cache = <<>>
    /\ poisoned = {}
    /\ logStart = 0
    /\ last = NoLast
    /\ hist = NoHist
    /\ events = 0

Still == UNCHANGED <<today, logs, cache, poisoned, logStart, last, hist, events>>

\* file contents of up to MaxLen lines of the pool
Contents == UNION {[1..k -> 1..Len(Pool)] : k \in 0..MaxLen}

CountInit ==
    /\ Idle
    /\ arg \in {[NoArg EXCEPT !.content = c, !.reg = r] : c \in Contents, r \in Regs}
    /\ out = NoOut

\* _counts_per_file.__wrapped__(filename, reg) on a readable file
DoCount ==
    /\ out.count.status = "none"
    /\ out' = [out EXCEPT !.count = CountsPerFile(arg.content, arg.reg)]
    /\ UNCHANGED arg
    /\ Still

SpecCount == CountInit /\ [][DoCount]_vars

RankUsers == {<<"a">>, <<"b">>, <<"c">>, <<"d">>}

RankNames == {<<"A">>, <<"b">>, <<"d">>}

\* the Counters over RankUsers with counts 1..MaxCount, in every insertion order
Totals ==
    {c \in UNION {[1..k -> RankUsers \X (1..MaxCount)] : k \in 0..Cardinality(RankUsers)} :
        \A i, j \in 1..Len(c) : c[i][1] = c[j][1] => i = j}

RankInit ==
    /\ Idle
    /\ arg \in {[NoArg EXCEPT !.total = c] : c \in Totals}
    /\ out = NoOut

\* the ranking of _user_rank_by_line_type on the total
DoUserRank(u) ==
    /\ out' = [out EXCEPT !.rankDone = TRUE, !.user = u, !.rank = UserRank(arg.total, u)]
    /\ UNCHANGED arg
    /\ Still

\* the ranking of _top_n_rank_by_line_type on the total
DoTopN(n) ==
    /\ out' = [out EXCEPT !.topDone = TRUE, !.n = n, !.top = TopN(arg.total, n)]
    /\ UNCHANGED arg
    /\ Still

RankNext ==
    \/ \E u \in RankNames : DoUserRank(u)
    \/ \E n \in 0..(Cardinality(RankUsers) + 1) : DoTopN(n)

SpecRank == RankInit /\ [][RankNext]_vars

\* series of up to MaxPts points with offsets and counts in 0..MaxX
Series ==
    UNION {[1..k -> (0..MaxX) \X (0..MaxX)] : k \in 0..MaxPts}

TrendInit ==
    /\ Idle
    /\ arg \in {[NoArg EXCEPT !.x = [i \in 1..Len(p) |-> p[i][1]],
                              !.y = [i \in 1..Len(p) |-> p[i][2]]] : p \in Series}
    /\ out = NoOut

\* lin_regr(x, y)
DoLinRegr ==
    /\ out.fit.status = "none"
    /\ out' = [out EXCEPT !.fit = LinRegr(arg.x, arg.y)]
    /\ UNCHANGED arg
    /\ Still

SpecTrend == TrendInit /\ [][DoLinRegr]_vars

\* ----------------------------------------------------------- properties
\* the counts a fresh read of file d gives for matcher reg
OnDisk(d, reg) == CountsPerFile(logs[d], reg).counts

RankOrTop == last.kind \in {"rank", "top"} /\ last.status = "ok"

\* the user a line counts for under a matcher: lowercased, <<>> if no match
Counted(reg, l) ==
    LET m == MatchTable[reg][l]
    IN IF ~m.matched THEN <<>>
       ELSE LowerStr(IF m.chat_user # <<>> THEN m.chat_user ELSE m.action_user)

SumOver(f, u, S) ==
    LET s == Sorted(S)
    IN Sum([i \in 1..Len(s) |-> Get(f[s[i]], u)])

\* the totals of a query are the sum of what it took from each file, and
\* what it took from today's file is what the file holds
FreshToday ==
    (RankOrTop /\ hist.n = 0) =>
        /\ DOMAIN last.contrib = ListDir
        /\ \A u \in Keys(last.total) \cup UNION {Keys(last.contrib[d]) : d \in ListDir} :
               Get(last.total, u) = SumOver(last.contrib, u, ListDir)
        /\ today \in ListDir => last.contrib[today] = OnDisk(today, last.reg)

\* a query that follows a query of the same matcher, with one line appended
\* to today's file in between: the line's user gains one, nobody else changes
OneMore ==
    (RankOrTop /\ last.after.n = 1 /\ last.prevReg = last.reg) =>
        \A u \in Keys(last.total) \cup Keys(last.prevTotal)
                 \cup {Counted(last.reg, last.after.line)} :
            u # <<>> =>
                Get(last.total, u) =
                    Get(last.prevTotal, u)
                        + (IF u = Counted(last.reg, last.after.line) THEN 1 ELSE 0)

\* C1: today's file is counted afresh by every query: the totals hold exactly
\* its content at query time, and a matching line appended between two queries
\* raises that user's count by one in the second.
C1_TodayFileFresh == FreshToday /\ OneMore

\* a second query saw one more line of today's file than the first
C1_Witness ==
    /\ RankOrTop
    /\ hist.n = 0
    /\ last.after.n = 1
    /\ last.prevReg = last.reg
    /\ Counted(last.reg, last.after.line) = <<"a">>
    /\ Get(last.prevTotal, <<"a">>) = 1
    /\ Get(last.total, <<"a">>) = 2

\* C2: no memo entry was written for a file while it was today's file, and no
\* query reads a memo entry of the file that is today's at the time.
C2_NoTodayInMemo ==
    /\ poisoned = {}
    /\ \A k \in last.hits : k[1] # last.today

\* a query served a past file from the memo and read today's file from disk
C2_Witness ==
    /\ RankOrTop
    /\ last.hits # {}
    /\ last.today \in DOMAIN last.contrib
    /\ <<last.today, last.reg>> \notin DOMAIN cache

\* C3: a memo entry, once written, never changes, and every later query of
\* that matcher takes that entry for the file, whatever the file holds by then.
C3_PastFileFixed ==
    [][\A k \in DOMAIN cache :
           /\ k \in DOMAIN cache'
           /\ cache'[k] = cache[k]
           /\ (/\ hist'.n = 0
               /\ last'.reg = k[2]
               /\ last'.today # k[1]
               /\ k[1] \in DOMAIN last'.contrib) => last'.contrib[k[1]] = cache[k]]_vars

\* a query took from the memo counts that the file no longer has
C3_Witness ==
    /\ RankOrTop
    /\ hist.n = 0
    /\ \E k \in last.hits :
           /\ cache[k] # OnDisk(k[1], k[2])
           /\ last.contrib[k[1]] = cache[k]

\* C9: a query in which an open fails ends with the I/O error, returns no
\* totals, rank or list, and leaves no memo entry for that file and matcher;
\* a query that ends well opened no unreadable file, and what it stored in
\* the memo is what the files hold.
C9_UnreadableFails ==
    /\ last.status = "OSError" =>
           /\ last.failed \in last.bad
           /\ last.total = <<>> /\ last.rank = <<>> /\ last.top = <<>>
           /\ last.x = <<>> /\ last.y = <<>>
           /\ <<last.failed, last.reg>> \notin DOMAIN cache
    /\ last.status \in {"ok", "need2"} =>
           \A d \in last.bad \cap DOMAIN last.contrib : <<d, last.reg>> \in last.hits
    /\ hist.n = 0 => \A k \in last.writes : cache[k] = OnDisk(k[1], k[2])

\* a rank or top-N query failed on a file of the directory
C9_Witness ==
    /\ last.kind \in {"rank", "top"}
    /\ last.status = "OSError"
    /\ last.failed \in ListDir
    /\ OnDisk(last.failed, last.reg) # <<>>

\* the files a series has a point for
PointDays == {last.x[i] + logStart : i \in 1..Len(last.x)}

\* C10: the series visits every file but today's; its offsets ascend; a file
\* has a point exactly when it or an earlier file has a non-zero count, and
\* the point holds days since the log start and the user's count that day.
C10_SeriesShape ==
    (last.kind = "plot" /\ last.status \in {"ok", "need2"} /\ hist.n = 0) =>
        LET files == ListDir \ {today}
            cnt(d) == Get(last.contrib[d], last.user)
        IN /\ DOMAIN last.contrib = files
           /\ logStart \in ListDir /\ \A d \in ListDir : logStart <= d
           /\ Len(last.y) = Len(last.x)
           /\ \A i, j \in 1..Len(last.x) : i < j => last.x[i] < last.x[j]
           /\ PointDays = {d \in files : \E e \in files : e <= d /\ cnt(e) # 0}
           /\ \A i \in 1..Len(last.x) : last.y[i] = cnt(last.x[i] + logStart)
           /\ last.x # <<>> => last.y[1] # 0

\* a series that leaves out a leading silent day or keeps a later one
C10_Witness ==
    /\ last.kind = "plot"
    /\ last.status \in {"ok", "need2"}
    /\ hist.n = 0
    /\ \/ Len(last.x) = 2 /\ last.y[2] = 0
       \/ Len(last.x) = 1 /\ last.x[1] = 1

\* ------------------------------------------- properties of the functions
Target == LowerStr(out.user)

\* the top-N list holds every user of the total
Untruncated == out.topDone /\ out.n >= Len(arg.total)

InGroup(g, u) == \E j \in 1..Len(g.usernames) : g.usernames[j] = u

\* C4: for a user of the totals, the rank and count of _user_rank_by_line_type
\* are the rank and count of the user's group in an untruncated top-N list.
C4_RankAgreesWithTopN ==
    (out.rankDone /\ Untruncated /\ Target \in Keys(arg.total)) =>
        /\ out.rank # <<>>
        /\ \E i \in 1..Len(out.top) :
               /\ InGroup(out.top[i], Target)
               /\ out.top[i].rank = out.rank[1]
               /\ out.top[i].count = out.rank[2]

\* a user ranked second, behind a tie, with the whole list at hand
C4_Witness ==
    /\ out.rankDone
    /\ Untruncated
    /\ Len(out.rank) = 2
    /\ out.rank[1] = 2
    /\ Len(out.top) >= 2
    /\ Len(out.top[1].usernames) >= 2

\* the distinct count values of the total
Values == {arg.total[i][2] : i \in 1..Len(arg.total)}

\* C5: a user's rank is 1 plus the number of distinct counts above the user's
\* count, so equal counts share a rank, and the ranks of the groups are 1..k
\* for k distinct counts, one group per count.
C5_TiesShareRankNoGaps ==
    /\ (out.rankDone /\ Target \in Keys(arg.total)) =>
           out.rank = <<1 + Cardinality({v \in Values : v > Get(arg.total, Target)}),
                        Get(arg.total, Target)>>
    /\ (out.rankDone /\ Target \notin Keys(arg.total)) => out.rank = <<>>
    /\ Untruncated =>
           /\ Len(out.top) = Cardinality(Values)
           /\ \A i \in 1..Len(out.top) :
                  /\ out.top[i].rank = i
                  /\ \A u \in Keys(arg.total) :
                         InGroup(out.top[i], u) <=> Get(arg.total, u) = out.top[i].count

\* counts like {a: 5, b: 5, c: 3}: the user below a tie of two is ranked 2
C5_Witness ==
    /\ out.rankDone
    /\ Len(out.rank) = 2
    /\ out.rank[1] = 2
    /\ Cardinality({u \in Keys(arg.total) : Get(arg.total, u) > out.rank[2]}) = 2

\* the usernames of a top-N list, in order
RECURSIVE Listed(_)
Listed(top) == IF top = <<>> THEN <<>> ELSE top[1].usernames \o Listed(Tail(top))

\* insertion position of a key of the total
Pos(u) == CHOOSE i \in 1..Len(arg.total) : arg.total[i][1] = u

\* u comes before v in the descending-count ordering
Ahead(u, v) ==
    \/ Get(arg.total, u) > Get(arg.total, v)
    \/ Get(arg.total, u) = Get(arg.total, v) /\ Pos(u) < Pos(v)

\* C6: top-N lists the first n entries of the descending-count ordering and
\* nobody else, and groups those entries by equal count, so a tie across the
\* cutoff is listed in part.
C6_TruncateThenGroup ==
    out.topDone =>
        LET l == Listed(out.top)
            in == {l[i] : i \in 1..Len(l)}
        IN /\ Len(l) = Min(out.n, Len(arg.total))
           /\ in \subseteq Keys(arg.total)
           /\ \A i, j \in 1..Len(l) : i < j => Ahead(l[i], l[j])
           /\ \A u \in Keys(arg.total) \ in : \A v \in in : Ahead(v, u)
           /\ \A i \in 1..Len(out.top) :
                  /\ out.top[i].rank = i
                  /\ out.top[i].usernames # <<>>
                  /\ \A j \in 1..Len(out.top[i].usernames) :
                         Get(arg.total, out.top[i].usernames[j]) = out.top[i].count
                  /\ i > 1 => out.top[i - 1].count > out.top[i].count

\* sorted counts like [5, 5, 5, 3] with n = 2: one group, two of the three tied
C6_Witness ==
    /\ out.topDone
    /\ out.n = 2
    /\ Len(out.top) = 1
    /\ Len(out.top[1].usernames) = 2
    /\ Cardinality({u \in Keys(arg.total) : Get(arg.total, u) = out.top[1].count}) = 3
    /\ Len(arg.total) = 4

\* the lines of the file that count for u under the matcher
Tally(u) ==
    Cardinality({i \in 1..Len(arg.content) : Counted(arg.reg, arg.content[i]) = u})

Counted1 == out.count.status # "none"

Unmatched == {i \in 1..Len(arg.content) : ~MatchTable[arg.reg][arg.content[i]].matched}

TalliesRight ==
    /\ out.count.status = "ok"
    /\ \A i \in 1..Len(out.count.counts) : out.count.counts[i][2] = Tally(out.count.counts[i][1])
    /\ \A i \in 1..Len(arg.content) :
           Counted(arg.reg, arg.content[i]) # <<>> =>
               Counted(arg.reg, arg.content[i]) \in Keys(out.count.counts)

\* C7 as stated: under each of the three matchers a non-matching line is
\* skipped without error and without a count.
C7_NonMatchingSkipped == Counted1 => TalliesRight

\* C7 as amended: under the two bonk matchers a non-matching line is skipped
\* without error and without a count; under the chat-message matcher it fails
\* the count with an AssertionError; a matching line always yields a username.
C7_SkippedExceptChat ==
    Counted1 =>
        /\ IF arg.reg = "CHAT_LOG_RE" /\ Unmatched # {}
           THEN out.count.status = "AssertionError" /\ out.count.counts = <<>>
           ELSE TalliesRight
        /\ \A i \in 1..Len(arg.content) :
               MatchTable[arg.reg][arg.content[i]].matched =>
                   Counted(arg.reg, arg.content[i]) # <<>>

\* a bonk count of a file with a line that matches and a line that does not
C7_Witness ==
    /\ out.count.status = "ok"
    /\ arg.reg # "CHAT_LOG_RE"
    /\ Unmatched # {}
    /\ out.count.counts # <<>>

\* a series the fit cannot be made for: fewer than 2 points, or one offset
Degenerate ==
    \/ Len(arg.x) < 2
    \/ \A i, j \in 1..Len(arg.x) : arg.x[i] = arg.x[j]

\* C8: a fit asked for a degenerate series ends in a reported error, neither
\* in an exception nor in a slope and intercept.
C8_FitFailureReported ==
    (out.fit.status # "none" /\ Degenerate) =>
        out.fit.status \notin {"ZeroDivisionError", "ok"}

====
